---- MODULE Spec2Model ----
(***************************************************************************)
(* Bloom filters of modern_bloom: the resizable filter tnt::dynamic_bloom  *)
(* (include/dynamic_bloom.hpp, and tnt::bloom_filter, whose constructor,   *)
(* insert, matches and clear are the same code) and the fixed-capacity     *)
(* filter tnt::static_bloom<T, N> (include/static_bloom.hpp).              *)
(*                                                                         *)
(* A program holds two filter objects, "a" and "b", of one of the class    *)
(* templates, each with its own Hash subobject, and calls their member     *)
(* functions in any order.  The programs that copy, move, reassign and     *)
(* destroy filters use dynamic_bloom, bloom_filter (whose member bits has  *)
(* no initializer) or the earlier dynamic_bloom(n) of dynamic_bloom.hpp    *)
(* (one hash per insert, defaulted copy operations).                       *)
(*                                                                         *)
(* Representation.                                                         *)
(*  - A std::uint64_t word is the set of its set bit offsets (0..63).      *)
(*  - A std::size_t hash value (64 bits) is the record of its two 32 bit   *)
(*    halves, [hi, lo], its value being hi * 2^32 + lo.                    *)
(*  - The float eps is given in percent, epc = 100 * eps.                  *)
(*  - The heap maps each allocated pointer to its array of words; the      *)
(*    null pointer is 0.                                                   *)
(***************************************************************************)
EXTENDS Integers, Sequences, FiniteSets, TLC

\* ------------------------------------------------------------- bounds
\* Number of distinct element values a program with one filter inserts and
\* queries.
MaxVal == 3
\* Number of distinct element values a program with two filters inserts and
\* queries.
MaxPairVal == 2
\* Number of distinct element values a program that copies, moves, reassigns
\* and destroys its filters inserts and queries.
MaxOwnVal == 1
\* The number of arrays allocated at the same time (two objects and a
\* temporary, or two objects and an array no object holds any more).
MaxArrays == 3

\* ---------------------------------------------------------- constants
\* Bits per std::uint64_t word (index >> 6, index & 63).
WordBits == 64
\* log_2 = 0.6931471805599453f, in millionths.
Log2 == 693147
\* log_2 * log_2, in millionths.
Log2Sq == 480453
\* Number of values of the 8 bit bit-field k.
KRange == 256
\* Bits of each half of a std::size_t (size_traits::high_shift).
HalfBits == 32

Inst == {"a", "b"}

\* Element values (T = int): 0, 67, 134, ...
Values == {67 * j : j \in 0..(MaxVal - 1)}
PairValues == {67 * j : j \in 0..(MaxPairVal - 1)}
OwnValues == {67 * j : j \in 1..MaxOwnVal}

\* The hash functors the filters are instantiated with.
HashIds == {1, 2, 3}
\* The hash functors of the programs that hold two filters.
PairHashIds == {1, 2}

\* The capacities N the fixed-capacity filter is instantiated with: N = 1,
\* a power of two, one word exactly, and two capacities of two words and more.
Capacities == {1, 8, 64, 100, 130}

\* The (n, epc) pairs the resizable filter is constructed or resized with.
\* n = 0 and eps = 1.0 are outside the documented domain.
Configs == {<<100, 1>>, <<10, 1>>, <<4, 25>>, <<10, 60>>, <<1, 90>>,
            <<0, 1>>, <<10, 100>>}

\* The (n, epc) pairs of the programs that hold two resizable filters.
PairConfigs == {<<10, 1>>, <<4, 25>>, <<10, 60>>}

\* The (n, epc) pairs of the programs that copy, move and destroy filters.
OwnConfigs == {<<10, 1>>, <<4, 25>>}

\* The sizes n the earlier dynamic_bloom(n) is constructed with: one word,
\* and 70 bits.
PrevSizes == {8, 70}

\* The parameters a filter is resized to: (n, eps in percent) with arrays of
\* 15, 2 and 1 words, and sizes n of the earlier dynamic_bloom(n) with arrays
\* of 8, 1 and 7 words.
ResizeConfigs == {<<100, 1>>, <<10, 1>>, <<4, 25>>}
ResizeSizes == {8, 64, 70}

\* The class templates with a heap-allocated bit array and the k round
\* scheme: dynamic_bloom and bloom_filter (same constructor, insert, matches
\* and clear).
Resizable == {"dynamic_bloom", "bloom_filter"}

\* All class templates with a heap-allocated bit array: the two above and
\* the earlier dynamic_bloom(n), which has a member n in place of (m, k).
HeapOwning == Resizable \cup {"dynamic_bloom_prev"}

\* n >= 1 and 0 < eps < 1.
ValidConfig(n, epc) == n >= 1 /\ epc > 0 /\ epc < 100

\* -------------------------------------------------------------- hashing
\* The Hash functor h applied to value v: the family
\* hash_h(v) = ((h - 1) * v) * 2^32 + (h mod 2) * v.  hash_1 is the identity
\* (std::hash<int>), hash_2(v) = v << 32 has an all-zero low half, hash_3
\* has both halves non-zero.
HashOf(h, v) == [hi |-> (h - 1) * v, lo |-> (h % 2) * v]

\* size_traits: step = hash & low_mask.
StepOf(hash) == hash.lo
\* size_traits: (hash & high_mask) >> high_shift.
BaseOf(hash) == hash.hi

\* ------------------------------------------------------------ bit store
\* len = (m >> 6) + ((m & 63) != 0).
WordCount(m) == (m \div WordBits) + (IF m % WordBits # 0 THEN 1 ELSE 0)

\* new std::uint64_t[len]{} : len zero words.
ZeroWords(len) == [j \in 0..(len - 1) |-> {}]

\* Mutant of SetBit: ^= in place of |=, the bit is toggled.
SetBitToggle(w, index) ==
    [w EXCEPT ![index \div WordBits] =
         (@ \ {index % WordBits}) \cup ({index % WordBits} \ @)]

\* Mutant of SetBit: = in place of |=, the word keeps the new bit only.
SetBitAssign(w, index) ==
    [w EXCEPT ![index \div WordBits] = {index % WordBits}]

\* bits[index >> 6] |= 1 << (index & 63).
SetBit(w, index) ==
    [w EXCEPT ![index \div WordBits] = @ \cup {index % WordBits}]

\* (bits[index >> 6] & (1 << (index & 63))) != 0.
TestBit(w, index) == (index % WordBits) \in w[index \div WordBits]

\* Every word of the array is zero.
AllZero(w) == \A j \in DOMAIN w : w[j] = {}

\* -------------------------------------------------------------- sizing
\* -std::log(eps) in millionths, for the sampled values of eps.
NlogEps(epc) ==
    CASE epc = 1   -> 4605170
      [] epc = 25  -> 1386294
      [] epc = 60  -> 510826
      [] epc = 90  -> 105361
      [] epc = 100 -> 0

\* m = static_cast<std::size_t>(n * nlog_eps / (log_2 * log_2)).
SizeM(n, epc) == (n * NlogEps(epc)) \div Log2Sq

\* k = static_cast<std::size_t>(nlog_eps / log_2), stored in 8 bits.
SizeK(epc) == (NlogEps(epc) \div Log2) % KRange

\* -------------------------------------------- resizable filter: pure code
RECURSIVE InsertLoopLinear(_, _, _, _, _, _)
\* Mutant of InsertLoop: h += step in place of h += i * step.
InsertLoopLinear(w, h, i, step, k, m) ==
    IF i >= k THEN w
    ELSE LET h2 == h + step
             index == h2 % m
         IN  InsertLoopLinear(SetBit(w, index), h2, i + 1, step, k, m)

RECURSIVE InsertLoop(_, _, _, _, _, _)
\* The loop of insert: for (i = 0; i < k; ++i) { h += i * step;
\* index = h % m; bits[index >> 6] |= 1 << (index & 63); }.  h stays below
\* 2^47 (h < 2^32 + 2^32 * 255 * 254 / 2), so the 64 bit sum never wraps.
InsertLoop(w, h, i, step, k, m) ==
    IF i >= k THEN w
    ELSE LET h2 == h + i * step
             index == h2 % m
         IN  InsertLoop(SetBit(w, index), h2, i + 1, step, k, m)

RECURSIVE MatchesLoop(_, _, _, _, _, _, _)
\* The loop of matches: found starts false; each round does
\* found |= (bits[index >> 6] & (1 << (index & 63))) != 0.
MatchesLoop(w, found, h, i, step, k, m) ==
    IF i >= k THEN found
    ELSE LET h2 == h + i * step
             index == h2 % m
         IN  MatchesLoop(w, found \/ TestBit(w, index), h2, i + 1, step, k, m)

\* dynamic_bloom::insert on the word array w of a filter with (m, k).
DynInsert(w, hash, k, m) == InsertLoop(w, BaseOf(hash), 0, StepOf(hash), k, m)

\* dynamic_bloom::matches on the word array w of a filter with (m, k).
DynMatches(w, hash, k, m) ==
    MatchesLoop(w, FALSE, BaseOf(hash), 0, StepOf(hash), k, m)

\* Mutant of DynClear: len = (m >> 6) + (m & 63) != 0, a bool, so that only
\* the first word is zeroed.
DynClearFirstWord(w, m) ==
    [j \in DOMAIN w |-> IF j < (IF (m \div WordBits) + (m % WordBits) # 0 THEN 1 ELSE 0)
                        THEN {} ELSE w[j]]

\* dynamic_bloom::clear: for (i = 0; i < len; ++i) bits[i] = 0.
DynClear(w, m) == [j \in DOMAIN w |-> IF j < WordCount(m) THEN {} ELSE w[j]]

\* Mutant of DynSwap: only the pointers are exchanged.
DynSwapBitsOnly(x, y) ==
    << [x EXCEPT !.bits = y.bits], [y EXCEPT !.bits = x.bits] >>

\* Mutant of DynSwap: k is not exchanged.
DynSwapNoK(x, y) ==
    << [x EXCEPT !.bits = y.bits, !.m = y.m, !.n = y.n, !.epc = y.epc],
       [y EXCEPT !.bits = x.bits, !.m = x.m, !.n = x.n, !.epc = x.epc] >>

\* swap(lhs, rhs): std::swap of bits, m and k (the constructor arguments n
\* and epc are recorded with m and k and travel with them).  The Hash base
\* subobjects are not exchanged.
DynSwap(x, y) ==
    << [x EXCEPT !.bits = y.bits, !.m = y.m, !.k = y.k, !.n = y.n, !.epc = y.epc],
       [y EXCEPT !.bits = x.bits, !.m = x.m, !.k = x.k, !.n = x.n, !.epc = x.epc] >>

\* The filter object the constructor dynamic_bloom(n, eps, hash) builds
\* around the freshly allocated array p.
DynNew(p, n, epc) ==
    [st |-> "live", bits |-> p, m |-> SizeM(n, epc), k |-> SizeK(epc),
     n |-> n, epc |-> epc]

\* The positions insert and matches visit: h % m is undefined for m = 0.
IndexDefined(f) == f.k = 0 \/ f.m > 0

\* ---------------------------------------- fixed-capacity filter: pure code
RECURSIVE BitAnd(_, _)
\* x & y on naturals.
BitAnd(x, y) ==
    IF x = 0 \/ y = 0 THEN 0
    ELSE (x % 2) * (y % 2) + 2 * BitAnd(x \div 2, y \div 2)

RECURSIVE Pow2Mod(_, _)
\* 2^e mod c.
Pow2Mod(e, c) == IF e = 0 THEN 1 % c ELSE (2 * Pow2Mod(e - 1, c)) % c

\* hash % c for the 64 bit hash hi * 2^32 + lo.
HashMod(hash, c) ==
    (((hash.hi % c) * Pow2Mod(HalfBits, c)) + (hash.lo % c)) % c

\* if constexpr ((N & (N - 1)) == 0): the bitwise AND is used.
FastPath(c) == BitAnd(c, c - 1) = 0

\* Mutant of Bucket: the bitwise AND is used for every N.
BucketAlwaysAnd(c, hash) == BitAnd(hash.lo, c - 1)

\* static_bloom::bucket: hash & (N - 1) if (N & (N - 1)) == 0, else hash % N.
\* N - 1 is below 2^32, so the AND keeps bits of the low half only.
Bucket(c, hash) ==
    IF FastPath(c) THEN BitAnd(hash.lo, c - 1) ELSE HashMod(hash, c)

\* std::uint64_t bits[N / 64 + (N % 64 != 0)]{}.
StaticLen(c) == (c \div WordBits) + (IF c % WordBits # 0 THEN 1 ELSE 0)

\* Mutant of StaInsert: = in place of |=, the word keeps the new bit only.
StaInsertAssign(w, c, hash) ==
    [w EXCEPT ![Bucket(c, hash) \div WordBits] = {Bucket(c, hash) % WordBits}]

\* static_bloom::insert.
StaInsert(w, c, hash) == SetBit(w, Bucket(c, hash))

\* static_bloom::matches.
StaMatches(w, c, hash) == TestBit(w, Bucket(c, hash))

\* static_bloom::clear: for (auto &bit : bits) bit = 0.
StaClear(w) == [j \in DOMAIN w |-> {}]

\* swap: auto const len = N / 64 + (N % 64) != 0, which parses as
\* (N / 64 + N % 64) != 0, a bool.
StaSwapLen(c) == IF (c \div WordBits) + (c % WordBits) # 0 THEN 1 ELSE 0

\* swap(lhs, rhs): for (i = 0; i < len; ++i) std::swap(lhs.bits[i], rhs.bits[i]).
StaSwap(x, y, c) ==
    << [j \in DOMAIN x |-> IF j < StaSwapLen(c) THEN y[j] ELSE x[j]],
       [j \in DOMAIN y |-> IF j < StaSwapLen(c) THEN x[j] ELSE y[j]] >>

\* ------------------------------------ earlier dynamic_bloom(n): pure code
\* new std::uint64_t[(n >> 6) + (n & 63)]{} : the word count of the array.
PrevLen(n) == (n \div WordBits) + (n % WordBits)

\* insert: h = hash(value) % n; bits[h >> 6] |= 1ULL << (h & 63).
PrevInsert(w, hash, n) == SetBit(w, HashMod(hash, n))

\* contains: h = hash(value) % n; (bits[h >> 6] & (1ULL << (h & 63))) != 0.
PrevContains(w, hash, n) == TestBit(w, HashMod(hash, n))

\* clear: for (i = 0; i < len; ++i) bits[i] = 0, len = (n >> 6) + (n & 63).
PrevClear(w, n) == [j \in DOMAIN w |-> IF j < PrevLen(n) THEN {} ELSE w[j]]

\* clear_and_resize(n) of the earlier dynamic_bloom(n) with the reuse test
\* removed: it always reallocates.
PrevReusesNever(n, old) == FALSE

\* clear_and_resize(n): new_len <= old_len, both computed from a member n;
\* "don't reallocate unless you have to".
PrevReuses(n, old) == PrevLen(n) <= PrevLen(old)

\* The filter object dynamic_bloom(n) builds around the array p; the member
\* n is kept in the field m (and in n), k and epc are not members.
PrevNew(p, n) ==
    [st |-> "live", bits |-> p, m |-> n, k |-> 0, n |-> n, epc |-> 0]

\* ------------------------------------------------- copies and moves: pure
\* Copy constructor: for (i = 0; i < len; ++i) bits[i] = rhs.bits[i].
CopyWords(w, len) == [j \in 0..(len - 1) |-> w[j]]

\* ---------------------------------------------------------------- state
VARIABLES
    variant,   \* the class template the program uses
    hashOf,    \* hashOf[i]: the Hash functor object i is constructed with
    flt,       \* resizable filters: st, bits (pointer), m, k, and n, epc
    heap,      \* pointer -> word array, for every allocated array
    cap,       \* the template argument N of static_bloom<T, N>
    sbits,     \* fixed-capacity filters: the member array bits
    inserted,  \* values inserted since the contents were last replaced
    last,      \* the last call made and what it returned
    fault      \* "none", or the undefined behaviour the program ran into

vars == <<variant, hashOf, flt, heap, cap, sbits, inserted, last, fault>>

\* An object whose constructor has not run.
NoFilter == [st |-> "none", bits |-> 0, m |-> 0, k |-> 0, n |-> 0, epc |-> 0]

\* A call: the member function op of object i, its arguments (v, or n and
\* epc), what it returned, and pre, a fact about the state it was made in:
\* for insert, that v had been inserted already; for clear, clear_and_resize
\* and swap, that some bit of the filter (of either filter) was set.
Call(op, i, v, ret, pre, n, epc) ==
    [op |-> op, i |-> i, v |-> v, ret |-> ret, pre |-> pre, n |-> n, epc |-> epc]

\* The non-null pointer values the objects fs hold.
HeldPtrs(fs) == {fs[i].bits : i \in Inst} \ {0}

\* An address that is not allocated and that no object holds.
FreshPtr(h, fs) ==
    LET used == DOMAIN h \cup HeldPtrs(fs)
    IN  CHOOSE p \in 1..(Cardinality(used) + 1) :
            p \notin used /\ \A q \in 1..(p - 1) : q \in used

\* new std::uint64_t[len] (allocate(len)): the address is the allocator's
\* choice among the addresses that are not allocated.  It is one no object
\* holds, or the address of a released array that an object still holds.
\* The program stops allocating at MaxArrays arrays.
NewPtrs(h, fs) ==
    IF Cardinality(DOMAIN h) < MaxArrays
    THEN {FreshPtr(h, fs)} \cup (HeldPtrs(fs) \ DOMAIN h)
    ELSE {}

\* The heap after allocating the zeroed array w at p.
Allocate(h, p, w) == [q \in DOMAIN h \cup {p} |-> IF q = p THEN w ELSE h[q]]

\* Mutant of Release: the array is never released.
ReleaseNone(h, p) == h

\* The heap after delete[] p; delete[] nullptr does nothing.
Release(h, p) == [q \in DOMAIN h \ {p} |-> h[q]]

\* The word array filter object f owns.
WordsOf(f, h) == h[f.bits]

\* The word count filter object f takes its array to have.
LenOf(f) == IF variant = "dynamic_bloom_prev" THEN PrevLen(f.m) ELSE WordCount(f.m)

\* Filter object f holds an allocated array of at least the word count it
\* takes it to have (a released array's address may have been allocated
\* again, with another word count).
Holds(f, h) ==
    f.bits \in DOMAIN h /\ LenOf(f) <= Cardinality(DOMAIN h[f.bits])

\* The object a constructor call of class c builds around the array p.
NewOf(c, p, n, epc) ==
    IF c = "dynamic_bloom_prev" THEN PrevNew(p, n) ELSE DynNew(p, n, epc)

\* delete[] p (deallocate(p, len)) of a pointer that is neither null nor
\* allocated: undefined behaviour.
BadFree(h, p) == p # 0 /\ p \notin DOMAIN h

\* The values an uninitialised (m, k) pair may hold.
GarbageSizes == {<<0, 0>>, <<11, 2>>}

\* The values the member bits holds before the constructor body runs:
\* dynamic_bloom declares bits = nullptr; bloom_filter declares bits with no
\* initializer, so it holds an indeterminate value: null, the address of an
\* allocated array, or an address that is not allocated.
UninitPtrs(v, h, fs) ==
    IF v = "bloom_filter" THEN {0} \cup DOMAIN h \cup NewPtrs(h, fs) ELSE {0}

\* Both objects are given the same functor, one of hs.
SameHash(hs) == {[i \in Inst |-> h] : h \in hs}

\* The program starts with the fixed-capacity filters default-constructed
\* (all words zero) and the resizable filters not yet constructed.
InitOf(variants, hashes) ==
    /\ variant \in variants
    /\ hashOf \in hashes
    /\ flt = [i \in Inst |-> NoFilter]
    /\ heap = <<>>
    /\ cap \in (IF variant = "static_bloom" THEN Capacities ELSE {1})
    /\ sbits = [i \in Inst |-> ZeroWords(StaticLen(cap))]
    /\ inserted = [i \in Inst |-> {}]
    /\ last = Call("start", "a", 0, FALSE, FALSE, 0, 0)
    /\ fault = "none"

Init == InitOf({"dynamic_bloom", "static_bloom"}, SameHash(HashIds))

Running(v) == variant = v /\ fault = "none"

\* The program uses one of the class templates vs and has not run into
\* undefined behaviour.
RunningIn(vs) == variant \in vs /\ fault = "none"

\* ---------------------------------------------- resizable filter: actions
\* dynamic_bloom(n, eps, hash): no argument is validated.
Construct(i, n, epc) ==
    /\ RunningIn(Resizable)
    /\ flt[i].st = "none"
    /\ \E p \in NewPtrs(heap, flt) :
           /\ flt' = [flt EXCEPT ![i] = DynNew(p, n, epc)]
           /\ heap' = Allocate(heap, p, ZeroWords(WordCount(SizeM(n, epc))))
    /\ inserted' = [inserted EXCEPT ![i] = {}]
    /\ last' = Call("construct", i, 0, FALSE, FALSE, n, epc)
    /\ UNCHANGED <<variant, hashOf, cap, sbits, fault>>

\* h % m with m = 0 and k > 0: undefined behaviour (a trap, or an arbitrary
\* index into an array of no words).
DivFault(op, i, v) ==
    /\ fault' \in {"division_by_zero", "out_of_bounds"}
    /\ last' = Call(op, i, v, FALSE, FALSE, 0, 0)
    /\ UNCHANGED <<variant, hashOf, flt, heap, cap, sbits, inserted>>

\* A read or write through a pointer whose array has been released:
\* undefined behaviour.
MemFault(op, i, v) ==
    /\ fault' = "use_after_free"
    /\ last' = Call(op, i, v, FALSE, FALSE, 0, 0)
    /\ UNCHANGED <<variant, hashOf, flt, heap, cap, sbits, inserted>>

\* insert(value).
Insert(i, v) ==
    /\ RunningIn(Resizable)
    /\ flt[i].st = "live"
    /\ LET f == flt[i] IN
       IF ~IndexDefined(f) THEN DivFault("insert", i, v)
       ELSE IF f.k > 0 /\ ~Holds(f, heap) THEN MemFault("insert", i, v)
       ELSE /\ heap' = IF f.k = 0 THEN heap
                       ELSE [heap EXCEPT ![f.bits] =
                                 DynInsert(@, HashOf(hashOf[i], v), f.k, f.m)]
            /\ inserted' = [inserted EXCEPT ![i] = @ \cup {v}]
            /\ last' = Call("insert", i, v, FALSE, v \in inserted[i], 0, 0)
            /\ UNCHANGED <<variant, hashOf, flt, cap, sbits, fault>>

\* matches(value), and the deprecated contains(value), which forwards to it.
Matches(i, v, op) ==
    /\ RunningIn(Resizable)
    /\ flt[i].st = "live"
    /\ LET f == flt[i] IN
       IF ~IndexDefined(f) THEN DivFault(op, i, v)
       ELSE IF f.k > 0 /\ ~Holds(f, heap) THEN MemFault(op, i, v)
       ELSE /\ last' = Call(op, i, v,
                            f.k > 0 /\ DynMatches(WordsOf(f, heap),
                                                  HashOf(hashOf[i], v), f.k, f.m),
                            FALSE, 0, 0)
            /\ UNCHANGED <<variant, hashOf, flt, heap, cap, sbits, inserted, fault>>

\* clear().
Clear(i) ==
    /\ RunningIn(Resizable)
    /\ flt[i].st = "live"
    /\ LET f == flt[i] IN
       IF WordCount(f.m) > 0 /\ ~Holds(f, heap) THEN MemFault("clear", i, 0)
       ELSE /\ heap' = IF Holds(f, heap)
                       THEN [heap EXCEPT ![f.bits] = DynClear(@, f.m)]
                       ELSE heap
            /\ inserted' = [inserted EXCEPT ![i] = {}]
            /\ last' = Call("clear", i, 0, FALSE,
                            Holds(f, heap) /\ ~AllZero(WordsOf(f, heap)), 0, 0)
            /\ UNCHANGED <<variant, hashOf, flt, cap, sbits, fault>>

\* clear_and_resize(n, eps): dynamic_bloom tmp{n, eps, hash}; swap(*this, tmp);
\* then tmp's destructor runs delete[] on the array *this held.
ClearAndResize(i, n, epc) ==
    /\ Running("dynamic_bloom")
    /\ flt[i].st = "live"
    /\ \E p \in NewPtrs(heap, flt) :
           LET tmp == DynNew(p, n, epc)
               sw == DynSwap(flt[i], tmp)
           IN  /\ flt' = [flt EXCEPT ![i] = sw[1]]
               /\ heap' = Release(Allocate(heap, p, ZeroWords(WordCount(tmp.m))),
                                  sw[2].bits)
    /\ inserted' = [inserted EXCEPT ![i] = {}]
    /\ last' = Call("clear_and_resize", i, 0, FALSE,
                    ~AllZero(WordsOf(flt[i], heap)), n, epc)
    /\ UNCHANGED <<variant, hashOf, cap, sbits, fault>>

\* swap(a, b); the move assignments a = std::move(b) and b = std::move(a)
\* are swap(*this, rhs) and nothing else.
Swap ==
    /\ RunningIn(HeapOwning)
    /\ flt["a"].st = "live" /\ flt["b"].st = "live"
    /\ LET sw == DynSwap(flt["a"], flt["b"])
       IN  flt' = [flt EXCEPT !["a"] = sw[1], !["b"] = sw[2]]
    /\ inserted' = [i \in Inst |-> {}]
    /\ last' = Call("swap", "a", 0, FALSE,
                    \E i \in Inst : Holds(flt[i], heap) /\ ~AllZero(WordsOf(flt[i], heap)),
                    0, 0)
    /\ UNCHANGED <<variant, hashOf, heap, cap, sbits, fault>>

\* --------------------------------------- earlier dynamic_bloom(n): actions
\* dynamic_bloom(n, hash).
PConstruct(i, n) ==
    /\ Running("dynamic_bloom_prev")
    /\ flt[i].st = "none"
    /\ \E p \in NewPtrs(heap, flt) :
           /\ flt' = [flt EXCEPT ![i] = PrevNew(p, n)]
           /\ heap' = Allocate(heap, p, ZeroWords(PrevLen(n)))
    /\ inserted' = [inserted EXCEPT ![i] = {}]
    /\ last' = Call("construct", i, 0, FALSE, FALSE, n, 0)
    /\ UNCHANGED <<variant, hashOf, cap, sbits, fault>>

\* insert(value).
PInsert(i, v) ==
    /\ Running("dynamic_bloom_prev")
    /\ flt[i].st = "live"
    /\ LET f == flt[i] IN
       IF ~Holds(f, heap) THEN MemFault("insert", i, v)
       ELSE /\ heap' = [heap EXCEPT ![f.bits] =
                            PrevInsert(@, HashOf(hashOf[i], v), f.m)]
            /\ inserted' = [inserted EXCEPT ![i] = @ \cup {v}]
            /\ last' = Call("insert", i, v, FALSE, v \in inserted[i], 0, 0)
            /\ UNCHANGED <<variant, hashOf, flt, cap, sbits, fault>>

\* contains(value).
PContains(i, v) ==
    /\ Running("dynamic_bloom_prev")
    /\ flt[i].st = "live"
    /\ LET f == flt[i] IN
       IF ~Holds(f, heap) THEN MemFault("contains", i, v)
       ELSE /\ last' = Call("contains", i, v,
                            PrevContains(WordsOf(f, heap), HashOf(hashOf[i], v), f.m),
                            FALSE, 0, 0)
            /\ UNCHANGED <<variant, hashOf, flt, heap, cap, sbits, inserted, fault>>

\* clear().
PClear(i) ==
    /\ Running("dynamic_bloom_prev")
    /\ flt[i].st = "live"
    /\ LET f == flt[i] IN
       IF ~Holds(f, heap) THEN MemFault("clear", i, 0)
       ELSE /\ heap' = [heap EXCEPT ![f.bits] = PrevClear(@, f.m)]
            /\ inserted' = [inserted EXCEPT ![i] = {}]
            /\ last' = Call("clear", i, 0, FALSE, ~AllZero(WordsOf(f, heap)), 0, 0)
            /\ UNCHANGED <<variant, hashOf, flt, cap, sbits, fault>>

\* clear_and_resize(n): clear() when the new length is not greater than the
\* length computed from this->n; otherwise delete[] bits and a new zeroed
\* array of new_len words; then this->n = n.
PClearAndResize(i, n) ==
    /\ Running("dynamic_bloom_prev")
    /\ flt[i].st = "live"
    /\ LET f == flt[i] IN
       IF PrevReuses(n, f.m)
       THEN IF ~Holds(f, heap) THEN MemFault("clear_and_resize", i, 0)
            ELSE /\ heap' = [heap EXCEPT ![f.bits] = PrevClear(@, f.m)]
                 /\ flt' = [flt EXCEPT ![i] = [f EXCEPT !.m = n, !.n = n]]
                 /\ inserted' = [inserted EXCEPT ![i] = {}]
                 /\ last' = Call("clear_and_resize", i, 0, FALSE,
                                 ~AllZero(WordsOf(f, heap)), n, 0)
                 /\ UNCHANGED <<variant, hashOf, cap, sbits, fault>>
       ELSE LET released == Release(heap, f.bits) IN
            /\ \E p \in NewPtrs(released, flt) :
                   /\ heap' = Allocate(released, p, ZeroWords(PrevLen(n)))
                   /\ flt' = [flt EXCEPT ![i] = PrevNew(p, n)]
            /\ fault' = IF BadFree(heap, f.bits) THEN "invalid_free" ELSE "none"
            /\ inserted' = [inserted EXCEPT ![i] = {}]
            /\ last' = Call("clear_and_resize", i, 0, FALSE,
                            Holds(f, heap) /\ ~AllZero(WordsOf(f, heap)), n, 0)
            /\ UNCHANGED <<variant, hashOf, cap, sbits>>

\* ------------------------------------ copy, move, assignment, destruction
\* Copy constructor, object i from object j.  dynamic_bloom and
\* bloom_filter: m{rhs.m}, k{rhs.k}, a new array of len words, each word
\* copied.  Earlier dynamic_bloom(n): defaulted, the members bits and n are
\* copied.
CopyConstruct(i, j) ==
    /\ RunningIn(HeapOwning)
    /\ i # j /\ flt[i].st = "none" /\ flt[j].st = "live"
    /\ LET src == flt[j] IN
       IF variant = "dynamic_bloom_prev"
       THEN /\ flt' = [flt EXCEPT ![i] = src]
            /\ inserted' = [inserted EXCEPT ![i] = inserted[j]]
            /\ last' = Call("copy_construct", i, 0, FALSE, FALSE, 0, 0)
            /\ UNCHANGED <<variant, hashOf, heap, cap, sbits, fault>>
       ELSE IF WordCount(src.m) > 0 /\ ~Holds(src, heap)
       THEN MemFault("copy_construct", i, 0)
       ELSE LET w == IF Holds(src, heap) THEN WordsOf(src, heap) ELSE <<>> IN
            /\ \E p \in NewPtrs(heap, flt) :
                   /\ flt' = [flt EXCEPT ![i] = [src EXCEPT !.bits = p]]
                   /\ heap' = Allocate(heap, p, CopyWords(w, WordCount(src.m)))
            /\ inserted' = [inserted EXCEPT ![i] = inserted[j]]
            /\ last' = Call("copy_construct", i, 0, FALSE, FALSE, 0, 0)
            /\ UNCHANGED <<variant, hashOf, cap, sbits, fault>>

\* Copy assignment, object i = object j.  dynamic_bloom and bloom_filter:
\* tmp{rhs}; swap(*this, tmp); then tmp's destructor releases the array
\* *this held.  Earlier dynamic_bloom(n): defaulted, the members bits and n
\* are overwritten.
CopyAssign(i, j) ==
    /\ RunningIn(HeapOwning)
    /\ i # j /\ flt[i].st \in {"live", "moved"} /\ flt[j].st = "live"
    /\ LET src == flt[j] IN
       IF variant = "dynamic_bloom_prev"
       THEN /\ flt' = [flt EXCEPT ![i] = src]
            /\ inserted' = [inserted EXCEPT ![i] = inserted[j]]
            /\ last' = Call("copy_assign", i, 0, FALSE, FALSE, 0, 0)
            /\ UNCHANGED <<variant, hashOf, heap, cap, sbits, fault>>
       ELSE IF WordCount(src.m) > 0 /\ ~Holds(src, heap)
       THEN MemFault("copy_assign", i, 0)
       ELSE LET w == IF Holds(src, heap) THEN WordsOf(src, heap) ELSE <<>> IN
            /\ \E p \in NewPtrs(heap, flt) :
                   LET tmp == [src EXCEPT !.bits = p]
                       sw == DynSwap(flt[i], tmp)
                       copied == Allocate(heap, p, CopyWords(w, WordCount(src.m)))
                   IN  /\ flt' = [flt EXCEPT ![i] = [sw[1] EXCEPT !.st = "live"]]
                       /\ heap' = Release(copied, sw[2].bits)
                       /\ fault' = IF BadFree(copied, sw[2].bits)
                                   THEN "invalid_free" ELSE "none"
            /\ inserted' = [inserted EXCEPT ![i] = inserted[j]]
            /\ last' = Call("copy_assign", i, 0, FALSE, FALSE, 0, 0)
            /\ UNCHANGED <<variant, hashOf, cap, sbits>>

\* Move constructor, object i from object j: swap(*this, rhs) with no
\* member initializer, so *this enters the swap with bits as declared and
\* with uninitialised m and k (n), and rhs leaves with them.
MoveConstruct(i, j) ==
    /\ RunningIn(HeapOwning)
    /\ i # j /\ flt[i].st = "none" /\ flt[j].st = "live"
    /\ \E g \in GarbageSizes, gp \in UninitPtrs(variant, heap, flt) :
           LET un == [NoFilter EXCEPT !.bits = gp, !.m = g[1], !.k = g[2]]
               sw == DynSwap(un, flt[j])
           IN  flt' = [flt EXCEPT ![i] = [sw[1] EXCEPT !.st = "live"],
                                  ![j] = [sw[2] EXCEPT !.st = "moved"]]
    /\ inserted' = [inserted EXCEPT ![i] = inserted[j], ![j] = {}]
    /\ last' = Call("move_construct", i, 0, FALSE, FALSE, 0, 0)
    /\ UNCHANGED <<variant, hashOf, heap, cap, sbits, fault>>

\* object i = dynamic_bloom(n, eps) (dynamic_bloom(n) in the earlier
\* variant, where eps is not used): the temporary is constructed, the move
\* assignment operator runs swap(*this, rhs), and the temporary's destructor
\* releases the array *this held.
AssignNew(i, n, epc) ==
    /\ RunningIn(HeapOwning)
    /\ flt[i].st \in {"live", "moved"}
    /\ \E p \in NewPtrs(heap, flt) :
           LET tmp == NewOf(variant, p, n, epc)
               sw == DynSwap(flt[i], tmp)
               built == Allocate(heap, p, ZeroWords(LenOf(tmp)))
           IN  /\ flt' = [flt EXCEPT ![i] = [sw[1] EXCEPT !.st = "live"]]
               /\ heap' = Release(built, sw[2].bits)
               /\ fault' = IF BadFree(built, sw[2].bits) THEN "invalid_free" ELSE "none"
    /\ inserted' = [inserted EXCEPT ![i] = {}]
    /\ last' = Call("assign_new", i, 0, FALSE,
                    Holds(flt[i], heap) /\ ~AllZero(WordsOf(flt[i], heap)), n, epc)
    /\ UNCHANGED <<variant, hashOf, cap, sbits>>

\* Destructor of object i: delete[] bits (deallocate(bits, len)).  pre
\* records that the object had been moved from.
Destroy(i) ==
    /\ RunningIn(HeapOwning)
    /\ flt[i].st \in {"live", "moved"}
    /\ flt' = [flt EXCEPT ![i] = [NoFilter EXCEPT !.st = "destroyed"]]
    /\ heap' = Release(heap, flt[i].bits)
    /\ fault' = IF BadFree(heap, flt[i].bits) THEN "invalid_free" ELSE "none"
    /\ inserted' = [inserted EXCEPT ![i] = {}]
    /\ last' = Call("destroy", i, 0, FALSE, flt[i].st = "moved", 0, 0)
    /\ UNCHANGED <<variant, hashOf, cap, sbits>>

\* ------------------------------------------- fixed-capacity filter: actions
\* insert(value).
SInsert(i, v) ==
    /\ Running("static_bloom")
    /\ sbits' = [sbits EXCEPT ![i] = StaInsert(@, cap, HashOf(hashOf[i], v))]
    /\ inserted' = [inserted EXCEPT ![i] = @ \cup {v}]
    /\ last' = Call("insert", i, v, FALSE, v \in inserted[i], 0, 0)
    /\ UNCHANGED <<variant, hashOf, flt, heap, cap, fault>>

\* matches(value), and the deprecated contains(value), which forwards to it.
SMatches(i, v, op) ==
    /\ Running("static_bloom")
    /\ last' = Call(op, i, v, StaMatches(sbits[i], cap, HashOf(hashOf[i], v)),
                    FALSE, 0, 0)
    /\ UNCHANGED <<variant, hashOf, flt, heap, cap, sbits, inserted, fault>>

\* clear().
SClear(i) ==
    /\ Running("static_bloom")
    /\ sbits' = [sbits EXCEPT ![i] = StaClear(@)]
    /\ inserted' = [inserted EXCEPT ![i] = {}]
    /\ last' = Call("clear", i, 0, FALSE, ~AllZero(sbits[i]), 0, 0)
    /\ UNCHANGED <<variant, hashOf, flt, heap, cap, fault>>

\* swap(a, b); the move assignments a = std::move(b) and b = std::move(a)
\* are swap(*this, rhs) and nothing else.
SSwap ==
    /\ Running("static_bloom")
    /\ LET sw == StaSwap(sbits["a"], sbits["b"], cap)
       IN  sbits' = [sbits EXCEPT !["a"] = sw[1], !["b"] = sw[2]]
    /\ inserted' = [i \in Inst |-> {}]
    /\ last' = Call("swap", "a", 0, FALSE, \E i \in Inst : ~AllZero(sbits[i]), 0, 0)
    /\ UNCHANGED <<variant, hashOf, flt, heap, cap, fault>>

\* Copy assignment, object i = object j (defaulted): every word and the
\* Hash base are copied.
SCopyAssign(i, j) ==
    /\ Running("static_bloom")
    /\ i # j
    /\ sbits' = [sbits EXCEPT ![i] = sbits[j]]
    /\ hashOf' = [hashOf EXCEPT ![i] = hashOf[j]]
    /\ inserted' = [inserted EXCEPT ![i] = inserted[j]]
    /\ last' = Call("copy_assign", i, 0, FALSE, ~AllZero(sbits[j]), 0, 0)
    /\ UNCHANGED <<variant, flt, heap, cap, fault>>

QueryOps == {"matches", "contains"}

\* A program that holds one filter, "a".
Next ==
    \/ \E c \in Configs : Construct("a", c[1], c[2])
    \/ \E v \in Values : Insert("a", v)
    \/ \E v \in Values, op \in QueryOps : Matches("a", v, op)
    \/ Clear("a")
    \/ \E c \in Configs : ClearAndResize("a", c[1], c[2])
    \/ \E v \in Values : SInsert("a", v)
    \/ \E v \in Values, op \in QueryOps : SMatches("a", v, op)
    \/ SClear("a")

Spec == Init /\ [][Next]_vars

\* A program that holds two resizable filters and swaps them.
InitPair == InitOf({"dynamic_bloom"}, SameHash(PairHashIds))

NextPair ==
    \/ \E i \in Inst, c \in PairConfigs : Construct(i, c[1], c[2])
    \/ \E i \in Inst, v \in PairValues : Insert(i, v)
    \/ \E i \in Inst, v \in PairValues : Matches(i, v, "matches")
    \/ \E i \in Inst : Clear(i)
    \/ Swap

SpecPair == InitPair /\ [][NextPair]_vars

\* A program that holds two fixed-capacity filters, each with its own hash
\* functor, and swaps them.
InitStaticPair == InitOf({"static_bloom"}, [Inst -> PairHashIds])

NextStaticPair ==
    \/ \E i \in Inst, v \in PairValues : SInsert(i, v)
    \/ \E i \in Inst, v \in PairValues : SMatches(i, v, "matches")
    \/ \E i \in Inst : SClear(i)
    \/ \E i, j \in Inst : SCopyAssign(i, j)
    \/ SSwap

SpecStaticPair == InitStaticPair /\ [][NextStaticPair]_vars

\* A program that holds two dynamic_bloom (or two bloom_filter) objects and
\* copies, moves, reassigns and destroys them.
InitOwn == InitOf(Resizable, SameHash({1}))

NextOwn ==
    \/ \E i \in Inst, c \in OwnConfigs : Construct(i, c[1], c[2])
    \/ \E i \in Inst, v \in OwnValues : Insert(i, v)
    \/ \E i \in Inst, v \in OwnValues : Matches(i, v, "matches")
    \/ \E i \in Inst : Clear(i)
    \/ \E i, j \in Inst : CopyConstruct(i, j)
    \/ \E i, j \in Inst : CopyAssign(i, j)
    \/ \E i, j \in Inst : MoveConstruct(i, j)
    \/ \E i \in Inst, c \in OwnConfigs : AssignNew(i, c[1], c[2])
    \/ Swap
    \/ \E i \in Inst : Destroy(i)

SpecOwn == InitOwn /\ [][NextOwn]_vars

\* A program that holds two objects of the earlier dynamic_bloom(n) and
\* copies, moves, resizes and destroys them.
InitPrev == InitOf({"dynamic_bloom_prev"}, SameHash({1}))

NextPrev ==
    \/ \E i \in Inst, n \in PrevSizes : PConstruct(i, n)
    \/ \E i \in Inst, v \in OwnValues : PInsert(i, v)
    \/ \E i \in Inst, v \in OwnValues : PContains(i, v)
    \/ \E i \in Inst : PClear(i)
    \/ \E i \in Inst, n \in PrevSizes : PClearAndResize(i, n)
    \/ \E i, j \in Inst : CopyConstruct(i, j)
    \/ \E i, j \in Inst : CopyAssign(i, j)
    \/ \E i, j \in Inst : MoveConstruct(i, j)
    \/ \E i \in Inst, n \in PrevSizes : AssignNew(i, n, 0)
    \/ Swap
    \/ \E i \in Inst : Destroy(i)

SpecPrev == InitPrev /\ [][NextPrev]_vars

\* A program that holds one object, "a", of the current dynamic_bloom(n, eps)
\* or of the earlier dynamic_bloom(n), and resizes it.
InitResize == InitOf({"dynamic_bloom", "dynamic_bloom_prev"}, SameHash(HashIds))

NextResize ==
    \/ \E c \in ResizeConfigs : Construct("a", c[1], c[2])
    \/ \E v \in Values : Insert("a", v)
    \/ \E v \in Values : Matches("a", v, "matches")
    \/ \E c \in ResizeConfigs : ClearAndResize("a", c[1], c[2])
    \/ \E n \in ResizeSizes : PConstruct("a", n)
    \/ \E v \in Values : PInsert("a", v)
    \/ \E v \in Values : PContains("a", v)
    \/ \E n \in ResizeSizes : PClearAndResize("a", n)

SpecResize == InitResize /\ [][NextResize]_vars

\* ================================================================ claims
\* The filter object the last call was made on, and its word array.
LastFlt == flt[last.i]
LastWords == WordsOf(LastFlt, heap)
\* The last call was op, made on a filter of class c, and it returned.
Returned(c, op) == variant = c /\ fault = "none" /\ last.op = op

\* Position i of the k positions derived from hash: base + step * (0 + 1 + ... + i),
\* reduced modulo m.
IndexAt(hash, i, m) == (BaseOf(hash) + StepOf(hash) * ((i * (i + 1)) \div 2)) % m

\* All k positions derived from hash are set in w.
AllSet(w, hash, k, m) == \A i \in 0..(k - 1) : TestBit(w, IndexAt(hash, i, m))

\* C1: resizable filter, no false negatives: a filter constructed with n >= 1
\* and 0 < eps < 1 answers matches(v) = true for every v inserted since its
\* contents were last replaced.
C1_DynNoFalseNegative ==
    (/\ Returned("dynamic_bloom", "matches")
     /\ ValidConfig(LastFlt.n, LastFlt.epc)
     /\ last.v \in inserted[last.i])
    => last.ret

\* C2: fixed-capacity filter, no false negatives: for every capacity N,
\* matches(v) and contains(v) return true for every v inserted since the
\* last clear, whatever other values were inserted.
C2_StaNoFalseNegative ==
    (/\ variant = "static_bloom"
     /\ last.op \in QueryOps
     /\ last.v \in inserted[last.i])
    => last.ret

\* C2 witness: contains(v) was called on a two-word filter (N = 100) that
\* holds v and two other values.
C2_Witness ==
    /\ variant = "static_bloom" /\ cap = 100
    /\ last.op = "contains" /\ last.ret
    /\ last.v \in inserted[last.i]
    /\ Cardinality(inserted[last.i]) >= 3

\* C3: resizable filter: matches(v) returns true only if all k positions
\* derived from hash(v) are set (so it returns false whenever one is unset).
C3_MatchesOnlyIfAllSet ==
    (Returned("dynamic_bloom", "matches") /\ last.ret)
    => AllSet(LastWords, HashOf(hashOf[last.i], last.v), LastFlt.k, LastFlt.m)

\* C4: both variants: right after clear() every word of the bit array is
\* zero, matches(v) is false for every v, and the capacity (m and k, the
\* number of words; N) is what it was.
C4_ClearZeroes ==
    [][last'.op = "clear" =>
         LET i == last'.i IN
         IF variant = "dynamic_bloom"
         THEN LET f == flt'[i]
                  w == WordsOf(f, heap')
              IN  /\ AllZero(w)
                  /\ IndexDefined(f) =>
                         \A v \in Values :
                             ~DynMatches(w, HashOf(hashOf'[i], v), f.k, f.m)
                  /\ f.m = flt[i].m /\ f.k = flt[i].k
                  /\ DOMAIN w = DOMAIN WordsOf(flt[i], heap)
         ELSE /\ AllZero(sbits'[i])
              /\ \A v \in Values :
                     ~StaMatches(sbits'[i], cap', HashOf(hashOf'[i], v))
              /\ cap' = cap
              /\ DOMAIN sbits'[i] = DOMAIN sbits[i]
      ]_vars

\* C4 witness: clear() was called on a populated resizable filter of
\* fifteen words (n = 100, eps = 0.01).
C4_Witness ==
    /\ Returned("dynamic_bloom", "clear") /\ last.pre
    /\ LastFlt.m > WordBits /\ AllZero(LastWords)

\* C5: resizable filter: after clear_and_resize(n2, eps2) with n2 >= 1 and
\* 0 < eps2 < 1, from any state, (m, k) are the sizing of (n2, eps2), the
\* bit array has the word count of the new m, every word is zero, and
\* matches(v) is false for every v inserted before.
C5_ResizeDiscards ==
    [][(last'.op = "clear_and_resize" /\ ValidConfig(last'.n, last'.epc)) =>
         LET i == last'.i
             f == flt'[i]
             w == WordsOf(f, heap')
         IN  /\ f.m = SizeM(last'.n, last'.epc)
             /\ f.k = SizeK(last'.epc)
             /\ DOMAIN w = 0..(WordCount(f.m) - 1)
             /\ AllZero(w)
             /\ \A v \in inserted[i] :
                    ~DynMatches(w, HashOf(hashOf'[i], v), f.k, f.m)
      ]_vars

\* C5 witness: clear_and_resize(4, 0.25) was called on a populated filter
\* and the filter now has the new m = 11 and k = 2.
C5_Witness ==
    /\ Returned("dynamic_bloom", "clear_and_resize") /\ last.pre
    /\ last.n = 4 /\ last.epc = 25
    /\ LastFlt.m = 11 /\ LastFlt.k = 2

\* C6: fixed-capacity swap, for every capacity N: after swap(a, b) every
\* word of a is the word b had and every word of b is the word a had.
C6_StaSwapExchanges ==
    [][last'.op = "swap" =>
         /\ sbits'["a"] = sbits["b"]
         /\ sbits'["b"] = sbits["a"]
      ]_vars

\* C7: resizable swap: after swap(a, b) a holds the (m, k, bit array) b had
\* and b holds a's, so with the same hash a.matches(v) is what b.matches(v)
\* was, and b.matches(v) what a.matches(v) was, for every v.
C7_DynSwapExchanges ==
    [][last'.op = "swap" =>
         \A x \in Inst :
             LET y == CHOOSE z \in Inst : z # x
                 f == flt'[x]
                 g == flt[y]
             IN  /\ f.m = g.m /\ f.k = g.k
                 /\ WordsOf(f, heap') = WordsOf(g, heap)
                 /\ IndexDefined(g) =>
                        \A v \in PairValues :
                            DynMatches(WordsOf(f, heap'), HashOf(hashOf'[x], v), f.k, f.m)
                            = DynMatches(WordsOf(g, heap), HashOf(hashOf[y], v), g.k, g.m)
      ]_vars

\* C7 witness: swap was called on two filters of different sizes, one of
\* them populated; a now has a set bit and b has none.
C7_Witness ==
    /\ Returned("dynamic_bloom", "swap") /\ last.pre
    /\ flt["a"].m # flt["b"].m /\ flt["a"].k # flt["b"].k
    /\ ~AllZero(WordsOf(flt["a"], heap))
    /\ AllZero(WordsOf(flt["b"], heap))

\* C8: both variants: insert is idempotent: right after insert(v), a second
\* insert(v) would leave every word of the bit array as it is; and insert
\* leaves m, k and N as they were.
C8_InsertIdempotent ==
    [][(last'.op = "insert" /\ fault' = "none") =>
         LET i == last'.i
             hash == HashOf(hashOf'[i], last'.v)
         IN  IF variant = "dynamic_bloom"
             THEN /\ flt' = flt
                  /\ DynInsert(WordsOf(flt'[i], heap'), hash, flt'[i].k, flt'[i].m)
                     = WordsOf(flt'[i], heap')
             ELSE /\ cap' = cap
                  /\ StaInsert(sbits'[i], cap', hash) = sbits'[i]
      ]_vars

\* C8 witness: insert(v) was called on a resizable filter that already held
\* v and another value, with k = 6 rounds.
C8_Witness ==
    /\ Returned("dynamic_bloom", "insert") /\ last.pre
    /\ LastFlt.k = 6 /\ last.v # 0
    /\ Cardinality(inserted[last.i]) >= 2
    /\ ~AllZero(LastWords)

\* C9: every resizable filter constructed or resized with n >= 1 and
\* 0 < eps < 1 has m > 0 and 1 <= k <= 255, in every state.
C9_ParamsInRange ==
    \A i \in Inst :
        (flt[i].st = "live" /\ ValidConfig(flt[i].n, flt[i].epc))
        => (flt[i].m > 0 /\ 1 <= flt[i].k /\ flt[i].k <= KRange - 1)

\* C10: constructing or resizing with n = 0 or eps outside (0, 1) produces
\* no filter object, so no insert or matches runs on such parameters.
C10_InvalidRejected ==
    \A i \in Inst :
        flt[i].st = "live" => ValidConfig(flt[i].n, flt[i].epc)

\* ceil(n * -ln(eps) / ln(2)^2), from the same -ln(eps) and ln(2)^2.
CeilM(n, epc) == (n * NlogEps(epc) + Log2Sq - 1) \div Log2Sq

\* round(-ln(eps) / ln(2)), from the same -ln(eps) and ln(2).
RoundK(epc) == (2 * NlogEps(epc) + Log2) \div (2 * Log2)

\* C11: the sizing of every resizable filter constructed or resized with
\* n >= 1 and 0 < eps < 1 is m = ceil(n * -ln(eps) / ln(2)^2) and
\* k = round(-ln(eps) / ln(2)).
C11_SizingCeilRound ==
    \A i \in Inst :
        (/\ variant \in {"dynamic_bloom", "bloom_filter"}
         /\ flt[i].st = "live"
         /\ ValidConfig(flt[i].n, flt[i].epc))
        => (/\ flt[i].m = CeilM(flt[i].n, flt[i].epc)
            /\ flt[i].k = RoundK(flt[i].epc))

\* The other one of the two objects.
Other(i) == CHOOSE j \in Inst : j # i

\* C12: copying a resizable filter is a deep copy: right after copy
\* construction or copy assignment the copy has the source's m, k and words
\* in an array of its own; and an insert, clear or destruction of one live
\* filter leaves the members and the array of the other as they were.
C12_CopyIsDeep ==
    [][/\ (last'.op \in {"copy_construct", "copy_assign"} /\ fault' = "none") =>
              LET i == last'.i
                  j == Other(i)
              IN  /\ flt'[i].m = flt[j].m /\ flt'[i].k = flt[j].k
                  /\ flt'[i].bits # flt'[j].bits
                  /\ Holds(flt'[i], heap')
                  /\ Holds(flt[j], heap) =>
                         CopyWords(WordsOf(flt'[i], heap'), LenOf(flt[j]))
                         = CopyWords(WordsOf(flt[j], heap), LenOf(flt[j]))
                  /\ flt'[j] = flt[j]
       /\ (/\ last'.op \in {"insert", "clear", "destroy"}
           /\ fault' = "none"
           /\ flt[last'.i].st = "live") =>
              LET y == Other(last'.i)
              IN  (flt[y].st = "live" /\ Holds(flt[y], heap)) =>
                      /\ flt'[y] = flt[y]
                      /\ flt[y].bits \in DOMAIN heap'
                      /\ heap'[flt[y].bits] = heap[flt[y].bits]
      ]_vars

\* C13: moving a resizable filter transfers ownership: right after move
\* construction the destination holds the (m, k, array) the source held, the
\* array is untouched, and the source holds no buffer; and the destructor of
\* a moved-from object releases no array another object holds and no
\* pointer that is not allocated.
C13_MoveTransfers ==
    [][/\ last'.op = "move_construct" =>
              LET i == last'.i
                  j == Other(i)
              IN  /\ flt'[i].m = flt[j].m /\ flt'[i].k = flt[j].k
                  /\ flt'[i].bits = flt[j].bits
                  /\ heap' = heap
                  /\ flt'[j].bits = 0
       /\ (last'.op = "destroy" /\ last'.pre) =>
              LET i == last'.i
              IN  /\ fault' = "none"
                  /\ flt[i].bits # 0 => flt[Other(i)].bits # flt[i].bits
      ]_vars

\* C14: my_filter = dynamic_bloom(n2, eps2) with n2 >= 1 and 0 < eps2 < 1, on
\* a live dynamic_bloom: afterwards my_filter has the sizing of (n2, eps2)
\* and an all-zero array of the new word count, matches(v) is false for
\* every v, the array it held before is released (once: the destructor runs
\* into no invalid release), and the other filter is as it was.
C14_AssignNewReplaces ==
    [][(/\ variant = "dynamic_bloom"
        /\ last'.op = "assign_new"
        /\ flt[last'.i].st = "live"
        /\ ValidConfig(last'.n, last'.epc)) =>
           LET i == last'.i
               f == flt'[i]
               old == flt[i].bits
               w == WordsOf(f, heap')
               y == Other(i)
           IN  /\ fault' = "none"
               /\ f.m = SizeM(last'.n, last'.epc)
               /\ f.k = SizeK(last'.epc)
               /\ DOMAIN w = 0..(WordCount(f.m) - 1)
               /\ AllZero(w)
               /\ IndexDefined(f) =>
                      \A v \in PairValues :
                          ~DynMatches(w, HashOf(hashOf'[i], v), f.k, f.m)
               /\ old \in DOMAIN heap /\ old \notin DOMAIN heap'
               /\ DOMAIN heap' = (DOMAIN heap \ {old}) \cup {f.bits}
               /\ flt'[y] = flt[y]
               /\ flt[y].bits \in DOMAIN heap => heap'[flt[y].bits] = heap[flt[y].bits]
      ]_vars

\* C14 witness: a = dynamic_bloom(4, 0.25) was executed on a populated
\* filter a of another size while b held an array of its own; a now has
\* m = 11, k = 2 and no bit set.
C14_Witness ==
    /\ variant = "dynamic_bloom" /\ fault = "none"
    /\ last.op = "assign_new" /\ last.pre
    /\ last.n = 4 /\ last.epc = 25
    /\ LastFlt.m = 11 /\ LastFlt.k = 2 /\ AllZero(LastWords)
    /\ flt["b"].st = "live" /\ ~AllZero(WordsOf(flt["b"], heap))

\* The bit array of the filter the call last' was made on, after the call.
WordsAfter ==
    IF variant' = "static_bloom" THEN sbits'[last'.i]
    ELSE WordsOf(flt'[last'.i], heap')

\* C15: filter state machine, both variants: a newly constructed filter is
\* Empty (every word zero); every insert(v) that returns, on a filter made
\* with n >= 1 and 0 < eps < 1, leaves the filter Populated (some bit set);
\* clear and clear_and_resize leave it Empty; matches and contains leave the
\* bit array as it is.
C15_StateMachine ==
    [][/\ last'.op \in {"construct", "clear", "clear_and_resize"} =>
              AllZero(WordsAfter)
       /\ (/\ last'.op = "insert" /\ fault' = "none"
           /\ variant = "dynamic_bloom" =>
                  ValidConfig(flt[last'.i].n, flt[last'.i].epc)) =>
              ~AllZero(WordsAfter)
       /\ last'.op \in QueryOps =>
              UNCHANGED <<flt, heap, sbits>>
      ]_vars

\* C16: fixed-capacity swap exchanges the hash objects with the bit arrays:
\* after swap(a, b) a has the hash object b had and b the one a had, and
\* a.matches(v) is what b.matches(v) was, and b.matches(v) what a.matches(v)
\* was, for every v.
C16_StaSwapExchangesHash ==
    [][last'.op = "swap" =>
         \A x \in Inst :
             /\ hashOf'[x] = hashOf[Other(x)]
             /\ \A v \in PairValues :
                    StaMatches(sbits'[x], cap', HashOf(hashOf'[x], v))
                    = StaMatches(sbits[Other(x)], cap, HashOf(hashOf[Other(x)], v))
      ]_vars

\* The bits of word j among the k positions derived from hash.
PositionBits(hash, k, m, j) ==
    {IndexAt(hash, r, m) % WordBits :
         r \in {q \in 0..(k - 1) : IndexAt(hash, q, m) \div WordBits = j}}

\* C17: index generation of the resizable filter, m > 0: insert(v) sets
\* exactly the k positions index_i = (base + step * i * (i + 1) / 2) mod m,
\* i = 0..k-1, base the high half and step the low half of hash(v), and
\* matches(v) answers from these positions; every position is in [0, m);
\* with step = 0 all k positions are the same index.
C17_IndexGeneration ==
    [][(/\ variant = "dynamic_bloom"
        /\ last'.op \in {"insert", "matches"}
        /\ fault' = "none"
        /\ flt[last'.i].m > 0) =>
           LET i == last'.i
               f == flt[i]
               hash == HashOf(hashOf[i], last'.v)
               old == WordsOf(f, heap)
               new == WordsOf(f, heap')
           IN  /\ \A r \in 0..(f.k - 1) :
                      /\ IndexAt(hash, r, f.m) >= 0
                      /\ IndexAt(hash, r, f.m) < f.m
                      /\ StepOf(hash) = 0 =>
                             IndexAt(hash, r, f.m) = IndexAt(hash, 0, f.m)
               /\ last'.op = "insert" =>
                      \A j \in DOMAIN old :
                          new[j] = old[j] \cup PositionBits(hash, f.k, f.m, j)
               /\ last'.op = "matches" =>
                      last'.ret = (\E r \in 0..(f.k - 1) :
                                       TestBit(old, IndexAt(hash, r, f.m)))
      ]_vars

\* C17 witness: insert(134) was called on a filter with m = 95 and k = 6
\* whose hash has a non-zero high half and a non-zero low half
\* (base = 268, step = 134); the positions 78, 22, 5, 27, 88 and 93 are set.
C17_Witness ==
    /\ Returned("dynamic_bloom", "insert")
    /\ hashOf[last.i] = 3 /\ last.v = 134
    /\ LastFlt.m = 95 /\ LastFlt.k = 6
    /\ \A x \in {78, 22, 5, 27, 88, 93} : TestBit(LastWords, x)

\* c is a power of two.
IsPowerOfTwo(c) == \E e \in 0..(HalfBits - 2) : c = 2 ^ e

\* C18: fixed-capacity index, N >= 1: on every insert, matches and contains
\* the index bucket computes is hash mod N and lies in [0, N); the bitwise
\* AND is used exactly when N is a power of two, where hash & (N - 1) is
\* hash mod N; insert sets, and matches and contains test, the bit at
\* hash mod N.
C18_BucketIsMod ==
    [][(variant = "static_bloom" /\ last'.op \in ({"insert"} \cup QueryOps)) =>
           LET i == last'.i
               hash == HashOf(hashOf[i], last'.v)
               b == Bucket(cap, hash)
           IN  /\ b = HashMod(hash, cap)
               /\ b >= 0 /\ b < cap
               /\ FastPath(cap) <=> IsPowerOfTwo(cap)
               /\ IsPowerOfTwo(cap) => BitAnd(hash.lo, cap - 1) = HashMod(hash, cap)
               /\ last'.op = "insert" =>
                      sbits'[i] = SetBit(sbits[i], HashMod(hash, cap))
               /\ last'.op \in QueryOps =>
                      last'.ret = TestBit(sbits[i], HashMod(hash, cap))
      ]_vars

\* C18 witness: insert(134) was called on a filter of capacity N = 100 (not
\* a power of two) whose hash has both halves non-zero
\* (hash = 268 * 2^32 + 134, hash mod 100 = 62), and bit 62 is set.
C18_Witness ==
    /\ variant = "static_bloom" /\ cap = 100
    /\ last.op = "insert" /\ last.v = 134 /\ hashOf[last.i] = 3
    /\ TestBit(sbits[last.i], 62)

\* ceil(x / 64).
CeilWords(x) == (x + WordBits - 1) \div WordBits

\* C19: bit-store bounds: the array of a resizable filter has ceil(m / 64)
\* words and the array of a fixed-capacity filter ceil(N / 64); no insert,
\* matches, contains or clear runs into an index that is not reduced below
\* m; and every word index index >> 6 these calls derive from a value is
\* below the word count of the array.
C19_IndexInBounds ==
    /\ variant = "static_bloom" =>
           \A i \in Inst :
               /\ DOMAIN sbits[i] = 0..(CeilWords(cap) - 1)
               /\ \A v \in Values :
                      Bucket(cap, HashOf(hashOf[i], v)) \div WordBits \in DOMAIN sbits[i]
    /\ variant = "dynamic_bloom" =>
           /\ last.op \in {"insert", "matches", "contains", "clear"} =>
                  fault = "none"
           /\ \A i \in Inst :
                  flt[i].st = "live" =>
                      /\ DOMAIN WordsOf(flt[i], heap) = 0..(CeilWords(flt[i].m) - 1)
                      /\ flt[i].k > 0 =>
                             /\ flt[i].m > 0
                             /\ \A v \in Values, r \in 0..(flt[i].k - 1) :
                                    IndexAt(HashOf(hashOf[i], v), r, flt[i].m) \div WordBits
                                        \in DOMAIN WordsOf(flt[i], heap)

\* The bit array of the filter the call last' was made on, before the call.
WordsBefore ==
    IF variant = "static_bloom" THEN sbits[last'.i]
    ELSE WordsOf(flt[last'.i], heap)

\* matches(v) of the filter the call last' was made on, evaluated on the
\* bit array w.
MatchesOn(w, v) ==
    LET i == last'.i
        hash == HashOf(hashOf[i], v)
    IN  IF variant = "static_bloom" THEN StaMatches(w, cap, hash)
        ELSE flt[i].k > 0 /\ DynMatches(w, hash, flt[i].k, flt[i].m)

\* The bits of word j among the positions derived from hash by the filter
\* the call last' was made on.
DerivedBits(hash, j) ==
    IF variant = "static_bloom"
    THEN (IF Bucket(cap, hash) \div WordBits = j
          THEN {Bucket(cap, hash) % WordBits} ELSE {})
    ELSE PositionBits(hash, flt[last'.i].k, flt[last'.i].m, j)

\* C20: insert only sets bits, both variants: an insert(v) that returns
\* leaves every set bit set, changes no bit outside the positions derived
\* from hash(v), and leaves m, k and N as they were, so every value that
\* matched before the insert matches after it; and a matches or contains
\* that returns changes nothing.
C20_InsertOnlySets ==
    [][/\ (last'.op = "insert" /\ fault' = "none") =>
              LET old == WordsBefore
                  new == WordsAfter
                  hash == HashOf(hashOf[last'.i], last'.v)
              IN  /\ DOMAIN new = DOMAIN old
                  /\ \A j \in DOMAIN old :
                         /\ old[j] \subseteq new[j]
                         /\ (new[j] \ old[j]) \subseteq DerivedBits(hash, j)
                  /\ flt' = flt /\ cap' = cap /\ hashOf' = hashOf
                  /\ \A v \in Values : MatchesOn(old, v) => MatchesOn(new, v)
       /\ (last'.op \in QueryOps /\ fault' = "none") =>
              UNCHANGED <<variant, hashOf, flt, heap, cap, sbits, inserted>>
      ]_vars

\* C20 witness: insert(67) was called on a filter of fifteen words
\* (m = 958, k = 6) that held 0 and 134 and not 67; all three are recorded.
C20_Witness ==
    /\ Returned("dynamic_bloom", "insert") /\ ~last.pre
    /\ last.v = 67 /\ inserted[last.i] = {0, 67, 134}
    /\ LastFlt.m = 958 /\ LastFlt.k = 6
    /\ \A v \in {0, 134} :
           AllSet(LastWords, HashOf(hashOf[last.i], v), LastFlt.k, LastFlt.m)

\* An object whose destructor has not run yet.
Alive(f) == f.st \in {"live", "moved"}
\* The number of words the array at p was allocated with.
AllocLen(h, p) == Cardinality(DOMAIN h[p])
\* The calls that end with a destructor releasing the array object i held.
ReleasingOps == {"destroy", "assign_new", "copy_assign"}

\* C21: exclusive buffer ownership.  After every step no two objects whose
\* destructor has not run hold the same non-null array, every allocated
\* array is held by such an object (so it is released, and once), no pointer
\* that was never allocated or that was already released is released, and
\* bloom_filter's deallocate(bits, len) is called with the word count the
\* array was allocated with.
C21_ExclusiveOwnership ==
    [][ /\ \A i, j \in Inst :
              (i # j /\ Alive(flt'[i]) /\ Alive(flt'[j]) /\ flt'[i].bits # 0)
                  => flt'[i].bits # flt'[j].bits
        /\ \A p \in DOMAIN heap' : \E i \in Inst : Alive(flt'[i]) /\ flt'[i].bits = p
        /\ fault' # "invalid_free"
        /\ (/\ variant = "bloom_filter"
            /\ last'.op \in ReleasingOps
            /\ flt[last'.i].bits \in DOMAIN heap)
               => WordCount(flt[last'.i].m) = AllocLen(heap, flt[last'.i].bits)
      ]_vars

\* The number of words a filter of class c needs for the parameters (n, eps).
NeedLen(c, n, epc) ==
    IF c = "dynamic_bloom_prev" THEN PrevLen(n) ELSE WordCount(SizeM(n, epc))

\* Filter g, with heap h and hash functor hid, is what a constructor call
\* with (n, eps) gives, as far as a caller can see: the same parameters, an
\* array that holds them, every bit zero, no value matched.
FreshLike(g, h, hid, n, epc) ==
    /\ g.st = "live" /\ g.bits \in DOMAIN h /\ AllZero(h[g.bits])
    /\ NeedLen(variant, n, epc) <= AllocLen(h, g.bits)
    /\ IF variant = "dynamic_bloom_prev"
       THEN /\ g.m = n
            /\ \A v \in Values : ~PrevContains(h[g.bits], HashOf(hid, v), g.m)
       ELSE /\ g.m = SizeM(n, epc) /\ g.k = SizeK(epc)
            /\ \A v \in Values : ~DynMatches(h[g.bits], HashOf(hid, v), g.k, g.m)

\* The step is a clear_and_resize call that returned.
ResizeStep == last'.op = "clear_and_resize" /\ fault' = "none"

\* The object keeps its array: same pointer, same allocation.
KeepsBuffer(f, g) ==
    g.bits = f.bits /\ AllocLen(heap', g.bits) = AllocLen(heap, f.bits)

\* The object's array is released and it holds a new array of len words.
ReplacesBuffer(f, g, len) ==
    /\ g.bits = f.bits \/ f.bits \notin DOMAIN heap'
    /\ g.bits \in DOMAIN heap' /\ AllocLen(heap', g.bits) = len

\* C22 as stated: on clear_and_resize, a filter whose new parameters need no
\* more words than its current parameters keeps its array and zeroes it,
\* any other filter releases its array and allocates a new one, and either
\* way the filter is as a freshly constructed one.
C22_ResizeReusesBuffer ==
    [][ ResizeStep =>
          LET f == flt[last'.i]
              g == flt'[last'.i]
              need == NeedLen(variant, last'.n, last'.epc)
          IN  /\ IF need <= LenOf(f) THEN KeepsBuffer(f, g)
                                     ELSE ReplacesBuffer(f, g, need)
              /\ FreshLike(g, heap', hashOf[last'.i], last'.n, last'.epc)
      ]_vars

\* C22 amended: only the earlier dynamic_bloom(n) reuses its array, when the
\* length computed from the new n is not greater than the length computed
\* from the current n; the current dynamic_bloom(n, eps) always allocates a
\* new array of the new length and releases the one it held.  Either way the
\* filter is as a freshly constructed one.
C22_ResizeAmended ==
    [][ ResizeStep =>
          LET f == flt[last'.i]
              g == flt'[last'.i]
              need == NeedLen(variant, last'.n, last'.epc)
          IN  /\ IF variant = "dynamic_bloom_prev" /\ need <= LenOf(f)
                 THEN KeepsBuffer(f, g)
                 ELSE ReplacesBuffer(f, g, need)
              /\ variant = "dynamic_bloom"
                     => g.bits # f.bits /\ f.bits \notin DOMAIN heap'
              /\ FreshLike(g, heap', hashOf[last'.i], last'.n, last'.epc)
      ]_vars

\* A populated earlier dynamic_bloom(8) was resized to n = 70 and kept its
\* array of 8 words, zeroed.
C22_Witness ==
    /\ Returned("dynamic_bloom_prev", "clear_and_resize")
    /\ last.pre /\ last.n = 70
    /\ AllocLen(heap, LastFlt.bits) = 8
    /\ AllZero(LastWords)
====
